---- MODULE Spec2Model ----
(***************************************************************************)
(* symbolgen_core: Symmetry::from_str, Alphabet::new and                   *)
(* Alphabet::generate, with the f64 arithmetic of the coordinates kept     *)
(* bit-exact.                                                              *)
(*                                                                         *)
(* An f64 is a pair <<hi, lo>> standing for (hi * 2^28 + lo) * 2^-56 with  *)
(* 0 <= lo < 2^28 (hi carries the sign, as in two's complement), which is  *)
(* exact for every value |v| < 4 whose last mantissa bit is at 2^-56 or    *)
(* above: all values the generator computes for resolution <= 9.  NaN and  *)
(* the infinities, which resolution = 1 produces, are the pairs with       *)
(* lo = -1.  Every operation rounds to 53 significant bits, ties to even.  *)
(***************************************************************************)
EXTENDS Integers, Sequences, FiniteSets, TLC

\* ------------------------------------------------------------------ f64

\* f64::MANTISSA_DIGITS: significant bits of an f64.
MantissaDigits == 53

\* Bits of the low limb and of the fraction.
LimbBits == 28

LimbBase == 2 ^ LimbBits

NaN == <<0, -1>>

PosInf == <<1, -1>>

NegInf == <<-1, -1>>

IsFinite(v) == v[2] >= 0

Zero == <<0, 0>>

One == <<LimbBase, 0>>

Half == <<LimbBase \div 2, 0>>

\* std::f64::EPSILON = 2^-52
EPSILON == <<0, 2 ^ (2 * LimbBits - (MantissaDigits - 1))>>

RECURSIVE BitLen(_)
BitLen(n) == IF n = 0 THEN 0 ELSE 1 + BitLen(n \div 2)

IsNeg(v) == v[1] < 0

\* Exact negation of a finite value.
NegFin(v) == IF v[2] = 0 THEN <<-v[1], 0>> ELSE <<-v[1] - 1, LimbBase - v[2]>>

FNeg(v) ==
  IF IsFinite(v) THEN NegFin(v)
  ELSE IF v = PosInf THEN NegInf ELSE IF v = NegInf THEN PosInf ELSE NaN

Carry(hi, lo) == IF lo >= LimbBase THEN <<hi + lo \div LimbBase, lo % LimbBase>> ELSE <<hi, lo>>

\* Ties go to the even mantissa, unless the exact value lies above the tie.
RoundsUp(down, t, unit, sticky) ==
  IF t * 2 > unit THEN TRUE
  ELSE IF t * 2 < unit THEN FALSE
  ELSE sticky \/ (down \div unit) % 2 = 1

RoundedLo(lo, t, unit, sticky) ==
  IF RoundsUp(lo - t, t, unit, sticky) THEN lo - t + unit ELSE lo - t

RoundTo(v, sticky, unit) == Carry(v[1], RoundedLo(v[2], v[2] % unit, unit, sticky))

RoundAt(v, sticky, q) == IF v[1] = 0 \/ q <= 0 THEN v ELSE RoundTo(v, sticky, 2 ^ q)

\* Round a non-negative exact value to MantissaDigits significant bits;
\* sticky says that the exact value lies strictly above <<hi, lo>>.
RoundMag(v, sticky) == RoundAt(v, sticky, (LimbBits + BitLen(v[1])) - MantissaDigits)

Round(v) == IF IsNeg(v) THEN NegFin(RoundMag(NegFin(v), FALSE)) ELSE RoundMag(v, FALSE)

\* a + b
FAdd(a, b) ==
  IF IsFinite(a) /\ IsFinite(b) THEN Round(Carry(a[1] + b[1], a[2] + b[2]))
  ELSE IF a = NaN \/ b = NaN THEN NaN
  ELSE IF IsFinite(a) THEN b
  ELSE IF IsFinite(b) \/ a = b THEN a
  ELSE NaN

\* a - b
FSub(a, b) == FAdd(a, FNeg(b))

DigitBase == 2 ^ (LimbBits \div 2)

\* Long division in base DigitBase: the remainder after k digits, and digit k.
RECURSIVE RemAfter(_, _, _)
RemAfter(r, d, k) == IF k = 0 THEN r ELSE RemAfter((r * DigitBase) % d, d, k - 1)

Digit(r, d, k) == (RemAfter(r, d, k - 1) * DigitBase) \div d

\* n / d for integers n >= 0, d > 0, correctly rounded
DivMag(n, d) ==
  RoundMag(<<((n \div d) * DigitBase + Digit(n % d, d, 1)) * DigitBase + Digit(n % d, d, 2),
             Digit(n % d, d, 3) * DigitBase + Digit(n % d, d, 4)>>,
           RemAfter(n % d, d, 4) # 0)

IntAbs(n) == IF n < 0 THEN -n ELSE n

\* (n as f64) / (d as f64) for small integers n, d
FDivInt(n, d) ==
  IF d = 0 THEN (IF n = 0 THEN NaN ELSE IF n > 0 THEN PosInf ELSE NegInf)
  ELSE IF (n < 0) # (d < 0) THEN NegFin(DivMag(IntAbs(n), IntAbs(d)))
  ELSE DivMag(IntAbs(n), IntAbs(d))

\* (k as f64) * v for k in {-1, 0, 1}
FMulInt(k, v) ==
  IF k = 0 THEN (IF IsFinite(v) THEN Zero ELSE NaN)
  ELSE IF k = 1 THEN v
  ELSE FNeg(v)

\* a == b
FEq(a, b) == a # NaN /\ b # NaN /\ a = b

\* a < b
FLt(a, b) ==
  IF a = NaN \/ b = NaN THEN FALSE
  ELSE IF a = b THEN FALSE
  ELSE IF a = NegInf \/ b = PosInf THEN TRUE
  ELSE IF a = PosInf \/ b = NegInf THEN FALSE
  ELSE a[1] < b[1] \/ (a[1] = b[1] /\ a[2] < b[2])

\* f64::max: the other operand when one is NaN
FMax(a, b) == IF a = NaN THEN b ELSE IF b = NaN THEN a ELSE IF FLt(a, b) THEN b ELSE a

\* f64::min
FMin(a, b) == IF a = NaN THEN b ELSE IF b = NaN THEN a ELSE IF FLt(b, a) THEN b ELSE a

\* f64::abs
FAbs(v) == IF v = NaN THEN NaN ELSE IF FLt(v, Zero) THEN FNeg(v) ELSE v

\* ------------------------------------------------------------ Symmetry

SymmetryTokens == {"asymmetric", "horizontal", "vertical", "horizontalvertical"}

\* Strings the command line may hand to Symmetry::from_str.
Tokens ==
  SymmetryTokens \cup {"", "Horizontal", "horizontal ", "horizontal-vertical", "both"}

Ok(v) == [tag |-> "Ok", val |-> v]

Err(e) == [tag |-> "Err", val |-> e]

FromStrDefaulting(symmetry) ==
  CASE symmetry = "horizontal" -> Ok("Horizontal")
    [] symmetry = "vertical" -> Ok("Vertical")
    [] symmetry = "horizontalvertical" -> Ok("HorizontalVertical")
    [] OTHER -> Ok("Asymmetric")

\* impl FromStr for Symmetry
FromStr(symmetry) ==
  CASE symmetry = "asymmetric" -> Ok("Asymmetric")
    [] symmetry = "horizontal" -> Ok("Horizontal")
    [] symmetry = "vertical" -> Ok("Vertical")
    [] symmetry = "horizontalvertical" -> Ok("HorizontalVertical")
    [] OTHER -> Err("Could not parse symmetry '" \o symmetry \o "'")

Motifs == {"Orthogonal", "Diagonal"}

\* ------------------------------------------------------------- bounds

\* Largest resolution and density a caller passes to Alphabet::new.
MaxResolution == 4

MaxDensity == 1

\* Largest seed a caller passes to Alphabet::generate.
MaxSeed == 199

\* Concurrent callers of one Alphabet, their resolutions and their seeds.
NumCallers == 2

MaxParResolution == 3

MaxParSeed == 1

Resolutions == 0..MaxResolution

Densities == 0..MaxDensity

Seeds == 0..MaxSeed

ParResolutions == 2..MaxParResolution

ParDensities == {1}

ParSeeds == 0..MaxParSeed

Callers == 1..NumCallers

\* ------------------------------------------------------------ Alphabet

AlphabetNewStepPerResolution(resolution, density, symmetry, motif) ==
  [resolution |-> resolution,
   step       |-> FDivInt(1, resolution),
   density    |-> density,
   symmetry   |-> symmetry,
   motif      |-> motif,
   num_lines  |-> density * resolution]

\* Alphabet::new
AlphabetNew(resolution, density, symmetry, motif) ==
  [resolution |-> resolution,
   step       |-> FDivInt(1, resolution - 1),
   density    |-> density,
   symmetry   |-> symmetry,
   motif      |-> motif,
   num_lines  |-> density * resolution]

\* ----------------------------------------------------------- the stream
\* ChaCha8Rng is a crate outside the repository: a fixed function from the
\* seed to a stream of words.  A 16-bit linear congruential generator with
\* 8-bit output words stands in for it; the draws below map a word to a
\* value the way rand's samplers do.

RngModulus == 2 ^ 16

WordRange == 2 ^ 8

RngStep(state) == (state * 25173 + 13849) % RngModulus

\* ChaCha8Rng::seed_from_u64
SeedFromU64(seed) == RngStep(seed % RngModulus)

\* The next word and the state after it.
NextWord(rng) == <<RngStep(rng) \div (RngModulus \div WordRange), RngStep(rng)>>

\* rng.gen::<bool>(): the word's top bit
GenBool(rng) == <<NextWord(rng)[1] >= WordRange \div 2, NextWord(rng)[2]>>

\* Alphabet::gen_coordinate
gen_coordinate(self, rng) ==
  <<FDivInt((NextWord(rng)[1] * self.resolution) \div WordRange, self.resolution - 1),
    NextWord(rng)[2]>>

\* Alphabet::gen_point
gen_point(self, rng) ==
  <<(<<gen_coordinate(self, rng)[1],
       gen_coordinate(self, gen_coordinate(self, rng)[2])[1]>>),
    gen_coordinate(self, gen_coordinate(self, rng)[2])[2]>>

\* Alphabet::gen_adjustment: -1, 0 or 1
gen_adjustment(self, rng) == <<(NextWord(rng)[1] * 3) \div WordRange - 1, NextWord(rng)[2]>>

\* ------------------------------------------------------------- generate

\* Point == Point
PointEq(p, q) == FEq(p[1], q[1]) /\ FEq(p[2], q[2])

\* Line::new
LineNew(start, end) == [start |-> start, end |-> end]

AtUpperBoundaryNever(coordinate) == FALSE

\* (coordinate - 1.0).abs() < EPSILON
AtUpperBoundary(coordinate) == FLt(FAbs(FSub(coordinate, One)), EPSILON)

\* The Orthogonal motif's offset along one axis, and the stream after it.
OrthogonalOffset(self, coordinate, rng) ==
  IF FEq(coordinate, Zero) THEN <<self.step, rng>>
  ELSE IF AtUpperBoundary(coordinate) THEN <<FNeg(self.step), rng>>
  ELSE <<FMulInt(gen_adjustment(self, rng)[1], self.step), gen_adjustment(self, rng)[2]>>

RandomOffsetDoubled(self, rng) ==
  <<FAdd(FMulInt(gen_adjustment(self, rng)[1], self.step),
         FMulInt(gen_adjustment(self, rng)[1], self.step)),
    gen_adjustment(self, rng)[2]>>

\* A drawn adjustment times step, and the stream after it.
RandomOffset(self, rng) ==
  <<FMulInt(gen_adjustment(self, rng)[1], self.step), gen_adjustment(self, rng)[2]>>

\* Diagonal: x is adjusted when coin_flip, then y when coin_fliend_point.
DiagonalX(self, coin_flip, rng) ==
  IF coin_flip THEN RandomOffset(self, rng) ELSE <<Zero, rng>>

DiagonalY(self, coin_fliend_point, rng) ==
  IF coin_fliend_point THEN RandomOffset(self, rng) ELSE <<Zero, rng>>

DiagonalAdditive(ax, ay) ==
  <<(<<FAdd(FAdd(Zero, ax[1]), Zero), FAdd(FAdd(Zero, Zero), ay[1])>>), ay[2]>>

OrthogonalAdditiveX(o) == <<(<<FAdd(Zero, o[1]), FAdd(Zero, Zero)>>), o[2]>>

OrthogonalAdditiveY(o) == <<(<<FAdd(Zero, Zero), FAdd(Zero, o[1])>>), o[2]>>

\* The additive vector of one attempt, and the stream after it.
Additive(self, coin_flip, coin_fliend_point, start_point, rng) ==
  IF self.motif = "Orthogonal"
  THEN IF coin_flip
       THEN OrthogonalAdditiveX(OrthogonalOffset(self, start_point[1], rng))
       ELSE OrthogonalAdditiveY(OrthogonalOffset(self, start_point[2], rng))
  ELSE DiagonalAdditive(DiagonalX(self, coin_flip, rng),
                        DiagonalY(self, coin_fliend_point,
                                  DiagonalX(self, coin_flip, rng)[2]))

ClampNone(v) == v

\* v.max(0.0).min(1.0)
Clamp(v) == FMin(FMax(v, Zero), One)

\* start_point + additive, clamped
EndPoint(start_point, additive) ==
  <<Clamp(FAdd(start_point[1], additive[1])), Clamp(FAdd(start_point[2], additive[2]))>>

Locals(coin_flip, coin_fliend_point, start_point, add) ==
  [coin_flip |-> coin_flip, coin_fliend_point |-> coin_fliend_point,
   start_point |-> start_point, end_point |-> EndPoint(start_point, add[1]),
   rng |-> add[2]]

FromStart(self, coin_flip, coin_fliend_point, sp) ==
  Locals(coin_flip, coin_fliend_point, sp[1],
         Additive(self, coin_flip, coin_fliend_point, sp[1], sp[2]))

FromCoins(self, c1, c2) == FromStart(self, c1[1], c2[1], gen_point(self, c2[2]))

\* One pass of the loop body up to the clamped end point: its locals.
Iteration(self, rng) == FromCoins(self, GenBool(rng), GenBool(GenBool(rng)[2]))

SameSegment(l, m) ==
  \/ PointEq(l.start, m.start) /\ PointEq(l.end, m.end)
  \/ PointEq(l.start, m.end) /\ PointEq(l.end, m.start)

KeepAll(lines, start_point, end_point) == TRUE

KeepUnlessDuplicate(lines, start_point, end_point) ==
  /\ ~PointEq(start_point, end_point)
  /\ \A k \in 1..Len(lines) : ~SameSegment(lines[k], LineNew(start_point, end_point))

\* The attempt's line is pushed unless start_point == end_point.
Keep(lines, start_point, end_point) == ~PointEq(start_point, end_point)

\* 0.5 + (0.5 - v)
Reflect(v) == FAdd(Half, FSub(Half, v))

MirrorXOfY(line) ==
  LineNew(<<line.start[1], Reflect(line.start[2])>>, <<line.end[1], Reflect(line.end[2])>>)

\* The copy pushed by the Horizontal block.
MirrorX(line) ==
  LineNew(<<Reflect(line.start[1]), line.start[2]>>, <<Reflect(line.end[1]), line.end[2]>>)

\* The copy pushed by the Vertical block.
MirrorY(line) ==
  LineNew(<<line.start[1], Reflect(line.start[2])>>, <<line.end[1], Reflect(line.end[2])>>)

MirrorAllX(lines) == [k \in 1..Len(lines) |-> MirrorX(lines[k])]

MirrorAllY(lines) == [k \in 1..Len(lines) |-> MirrorY(lines[k])]

MovesX(line) == ~SameSegment(line, MirrorX(line))

MovesY(line) == ~SameSegment(line, MirrorY(line))

HorizontalSkippingFixed(symmetry, lines) ==
  IF symmetry \in {"Horizontal", "HorizontalVertical"}
  THEN lines \o MirrorAllX(SelectSeq(lines, MovesX)) ELSE lines

VerticalSkippingFixed(symmetry, lines) ==
  IF symmetry \in {"Vertical", "HorizontalVertical"}
  THEN lines \o MirrorAllY(SelectSeq(lines, MovesY)) ELSE lines

ExpandSkippingFixed(symmetry, lines) ==
  VerticalSkippingFixed(symmetry, HorizontalSkippingFixed(symmetry, lines))

\* if self.symmetry == Horizontal || HorizontalVertical: push the x mirrors
HorizontalBlock(symmetry, lines) ==
  IF symmetry \in {"Horizontal", "HorizontalVertical"}
  THEN lines \o MirrorAllX(lines) ELSE lines

\* if self.symmetry == Vertical || HorizontalVertical: push the y mirrors
VerticalBlock(symmetry, lines) ==
  IF symmetry \in {"Vertical", "HorizontalVertical"}
  THEN lines \o MirrorAllY(lines) ELSE lines

ExpandVerticalFirst(symmetry, lines) ==
  HorizontalBlock(symmetry, VerticalBlock(symmetry, lines))

\* The two symmetry blocks after the loop.
Expand(symmetry, lines) == VerticalBlock(symmetry, HorizontalBlock(symmetry, lines))

\* Glyph::new
GlyphNew(seed, lines) == [seed |-> seed, lines |-> lines]

SelfCountedDown(self) == [self EXCEPT !.num_lines = @ - 1]

\* generate borrows the Alphabet as &self: an attempt assigns none of its fields.
SelfAfterAttempt(self) == self

\* -------------------------------------------------------------- state

VARIABLES
  options,   \* <<>> before the command line is parsed, then <<[token, symmetry]>>
  alphabet,  \* <<>> before Alphabet::new, then <<the Alphabet>>
  frame      \* per caller: idle, inside generate (its locals), or holding the Glyph

vars == <<options, alphabet, frame>>

Idle == [pc |-> "idle"]

Init ==
  /\ options = <<>>
  /\ alphabet = <<>>
  /\ frame = [c \in Callers |-> Idle]

\* The symmetry option goes through Symmetry::from_str.
Parse(token) ==
  /\ options = <<>>
  /\ options' = <<[token |-> token, symmetry |-> FromStr(token)]>>
  /\ UNCHANGED <<alphabet, frame>>

\* Alphabet::new with the parsed symmetry.
New(resolution, density, motif) ==
  /\ options # <<>>
  /\ options[1].symmetry.tag = "Ok"
  /\ alphabet = <<>>
  /\ alphabet' = <<AlphabetNew(resolution, density, options[1].symmetry.val, motif)>>
  /\ UNCHANGED <<options, frame>>

\* Entry of generate: the stream is seeded, the list is empty.
Enter(c, seed) ==
  /\ alphabet # <<>>
  /\ frame' = [frame EXCEPT ![c] =
       [pc |-> "loop", seed |-> seed, rng |-> SeedFromU64(seed), i |-> 0,
        lines |-> <<>>, attempt |-> <<>>]]
  /\ UNCHANGED <<options, alphabet>>

\* A caller's first call of generate.
Call(c, seed) == frame[c].pc = "idle" /\ Enter(c, seed)

\* A caller that holds a Glyph drops it and calls generate again.
CallAgain(c, seed) == frame[c].pc = "done" /\ Enter(c, seed)

\* The frame after one pass of the loop body with locals it.
AfterIteration(fr, it) ==
  [fr EXCEPT !.rng = it.rng,
             !.i = @ + 1,
             !.attempt = <<[coin_flip |-> it.coin_flip,
                            coin_fliend_point |-> it.coin_fliend_point,
                            start_point |-> it.start_point,
                            end_point |-> it.end_point]>>,
             !.lines = IF Keep(@, it.start_point, it.end_point)
                       THEN Append(@, LineNew(it.start_point, it.end_point))
                       ELSE @]

\* One iteration of for _i in 0..self.num_lines.
Attempt(c) ==
  /\ alphabet # <<>>
  /\ frame[c].pc = "loop"
  /\ frame[c].i < alphabet[1].num_lines
  /\ frame' = [frame EXCEPT ![c] = AfterIteration(@, Iteration(alphabet[1], frame[c].rng))]
  /\ alphabet' = <<SelfAfterAttempt(alphabet[1])>>
  /\ UNCHANGED options

\* The loop is over: symmetry expansion and the returned Glyph.
Finish(c) ==
  /\ alphabet # <<>>
  /\ frame[c].pc = "loop"
  /\ frame[c].i >= alphabet[1].num_lines
  /\ frame' = [frame EXCEPT ![c] =
       [pc |-> "done",
        glyph |-> GlyphNew(frame[c].seed, Expand(alphabet[1].symmetry, frame[c].lines))]]
  /\ UNCHANGED <<options, alphabet>>

\* One caller, one generate call.
Next ==
  \/ \E token \in Tokens : Parse(token)
  \/ \E resolution \in Resolutions, density \in Densities, motif \in Motifs :
       New(resolution, density, motif)
  \/ \E seed \in Seeds : Call(1, seed)
  \/ Attempt(1)
  \/ Finish(1)

Spec == Init /\ [][Next]_vars

\* Several callers share the Alphabet and run generate, again and again,
\* interleaved.
NextPar ==
  \/ \E token \in Tokens : Parse(token)
  \/ \E resolution \in ParResolutions, density \in ParDensities, motif \in Motifs :
       New(resolution, density, motif)
  \/ \E c \in Callers, seed \in ParSeeds : Call(c, seed)
  \/ \E c \in Callers, seed \in ParSeeds : CallAgain(c, seed)
  \/ \E c \in Callers : Attempt(c)
  \/ \E c \in Callers : Finish(c)

SpecPar == Init /\ [][NextPar]_vars

\* ------------------------------------------------------------ properties

Self == alphabet[1]

\* The configuration satisfies the data model: resolution >= 2, density >= 1.
Valid == alphabet # <<>> /\ Self.resolution >= 2 /\ Self.density >= 1

\* The grid exists: resolution >= 2.
Gridded == alphabet # <<>> /\ Self.resolution >= 2

InLoop(c) == frame[c].pc = "loop"

Done(c) == frame[c].pc = "done"

Returns(c) == frame[c].pc = "loop" /\ frame'[c].pc = "done"

Coordinates(line) == {line.start[1], line.start[2], line.end[1], line.end[2]}

Factor(symmetry) ==
  CASE symmetry = "Asymmetric" -> 1
    [] symmetry = "Horizontal" -> 2
    [] symmetry = "Vertical" -> 2
    [] symmetry = "HorizontalVertical" -> 4

HasDuplicate(lines) ==
  \E j, k \in 1..Len(lines) : j < k /\ SameSegment(lines[j], lines[k])

\* C1: generate is a function of (configuration, seed): any two finished
\* calls with the same seed on the shared Alphabet, run one after the other
\* or interleaved with each other, and after any earlier calls of the same
\* or other seeds, hold the same ordered list of lines; and no step of
\* generate changes a field of the Alphabet.
C1_Deterministic ==
  /\ [](\A c, d \in Callers :
          Done(c) /\ Done(d) /\ frame[c].glyph.seed = frame[d].glyph.seed
            => frame[c].glyph.lines = frame[d].glyph.lines)
  /\ [][alphabet # <<>> => alphabet' = alphabet]_vars

\* Two callers hold the Glyph of the same seed, with mirrored lines in it.
C1_Witness ==
  /\ Valid
  /\ Done(1) /\ Done(2)
  /\ frame[1].glyph.seed = frame[2].glyph.seed
  /\ Self.symmetry = "HorizontalVertical"
  /\ Len(frame[1].glyph.lines) >= 8

\* C2: for resolution >= 2 no line of the list has start == end, neither
\* while the walk accumulates it nor in the returned list with its mirrored
\* copies.
C2_NoDegenerate ==
  Gridded =>
    \A c \in Callers :
      /\ InLoop(c) =>
           \A k \in 1..Len(frame[c].lines) :
             ~PointEq(frame[c].lines[k].start, frame[c].lines[k].end)
      /\ Done(c) =>
           \A k \in 1..Len(frame[c].glyph.lines) :
             ~PointEq(frame[c].glyph.lines[k].start, frame[c].glyph.lines[k].end)

\* A returned list with mirrored copies after an attempt was rejected.
C2_Witness ==
  /\ Valid
  /\ Done(1)
  /\ Self.symmetry = "HorizontalVertical"
  /\ Len(frame[1].glyph.lines) > 0
  /\ Len(frame[1].glyph.lines) < 4 * Self.num_lines

\* C3: every attempt is consumed and adds at most one line, so the list has
\* at most density * resolution lines when the loop ends; the returned list
\* has exactly 1, 2, 2 or 4 times as many lines as the accumulated list for
\* Asymmetric, Horizontal, Vertical, HorizontalVertical.
C3_Counts ==
  [][\A c \in Callers :
       /\ InLoop(c) /\ InLoop(c)' =>
            /\ frame'[c].i = frame[c].i + 1
            /\ frame'[c].i <= Self.density * Self.resolution
            /\ Len(frame'[c].lines) \in {Len(frame[c].lines), Len(frame[c].lines) + 1}
            /\ Len(frame'[c].lines) <= frame'[c].i
       /\ Returns(c) =>
            /\ Len(frame[c].lines) <= Self.density * Self.resolution
            /\ Len(frame'[c].glyph.lines) = Factor(Self.symmetry) * Len(frame[c].lines)]_vars

\* Four times the accumulated lines, one of them twice in the list.
C3_Witness ==
  /\ Valid
  /\ Done(1)
  /\ Self.symmetry = "HorizontalVertical"
  /\ Len(frame[1].glyph.lines) = 8
  /\ \E k \in 1..2 : SameSegment(frame[1].glyph.lines[k], frame[1].glyph.lines[k + 2])

OnGrid(v) == \E k \in 0..(Self.resolution - 1) : v = FDivInt(k, Self.resolution - 1)

Tolerance == FAdd(EPSILON, EPSILON)

NearGrid(v) ==
  \E k \in 0..(Self.resolution - 1) :
    FLt(FAbs(FSub(v, FDivInt(k, Self.resolution - 1))), Tolerance)

InUnit(v) == ~FLt(v, Zero) /\ ~FLt(One, v)

\* C4 as stated: every coordinate of a returned line is exactly the f64
\* k / (resolution - 1) for an integer 0 <= k <= resolution - 1.
C4_ExactlyOnGrid ==
  Gridded =>
    \A c \in Callers :
      Done(c) =>
        \A k \in 1..Len(frame[c].glyph.lines) :
          \A v \in Coordinates(frame[c].glyph.lines[k]) : OnGrid(v)

\* C4 amended: every coordinate of a returned line lies in [0, 1] and within
\* 2 * f64::EPSILON of k / (resolution - 1) for an integer
\* 0 <= k <= resolution - 1; the start points the walk draws are exactly on
\* the grid.
C4_NearGrid ==
  Gridded =>
    \A c \in Callers :
      /\ InLoop(c) =>
           \A k \in 1..Len(frame[c].lines) :
             OnGrid(frame[c].lines[k].start[1]) /\ OnGrid(frame[c].lines[k].start[2])
      /\ Done(c) =>
           \A k \in 1..Len(frame[c].glyph.lines) :
             \A v \in Coordinates(frame[c].glyph.lines[k]) : InUnit(v) /\ NearGrid(v)

\* A returned coordinate one rounding step off the grid.
C4_Witness ==
  /\ Valid
  /\ Done(1)
  /\ \E k \in 1..Len(frame[1].glyph.lines) :
       \E v \in Coordinates(frame[1].glyph.lines[k]) : ~OnGrid(v) /\ NearGrid(v)

OneMinusX(line) ==
  LineNew(<<FSub(One, line.start[1]), line.start[2]>>, <<FSub(One, line.end[1]), line.end[2]>>)

OneMinusY(line) ==
  LineNew(<<line.start[1], FSub(One, line.start[2])>>, <<line.end[1], FSub(One, line.end[2])>>)

Occurs(line, lines) == \E j \in 1..Len(lines) : lines[j] = line

Pushed(c) ==
  /\ Len(frame[c].lines) > 0
  /\ frame[c].lines[Len(frame[c].lines)] =
       LineNew(frame[c].attempt[1].start_point, frame[c].attempt[1].end_point)

\* C6: under Orthogonal with resolution >= 2, an attempt on the x-axis from
\* x == 0 ends at x == step and from x == 1 at x == 1 - step, y unchanged;
\* the same on the y-axis when the boolean selects it; and the line is
\* pushed.
C6_BoundaryPush ==
  Gridded /\ Self.motif = "Orthogonal" =>
    \A c \in Callers :
      InLoop(c) /\ frame[c].attempt # <<>> =>
        /\ frame[c].attempt[1].coin_flip /\ FEq(frame[c].attempt[1].start_point[1], Zero) =>
             /\ frame[c].attempt[1].end_point =
                  <<Self.step, frame[c].attempt[1].start_point[2]>>
             /\ Pushed(c)
        /\ frame[c].attempt[1].coin_flip /\ FEq(frame[c].attempt[1].start_point[1], One) =>
             /\ frame[c].attempt[1].end_point =
                  <<FSub(One, Self.step), frame[c].attempt[1].start_point[2]>>
             /\ Pushed(c)
        /\ ~frame[c].attempt[1].coin_flip /\ FEq(frame[c].attempt[1].start_point[2], Zero) =>
             /\ frame[c].attempt[1].end_point =
                  <<frame[c].attempt[1].start_point[1], Self.step>>
             /\ Pushed(c)
        /\ ~frame[c].attempt[1].coin_flip /\ FEq(frame[c].attempt[1].start_point[2], One) =>
             /\ frame[c].attempt[1].end_point =
                  <<frame[c].attempt[1].start_point[1], FSub(One, Self.step)>>
             /\ Pushed(c)

\* An x-axis attempt from the upper boundary, pushed one step inward.
C6_Witness ==
  /\ Valid
  /\ Self.motif = "Orthogonal"
  /\ Self.resolution = 4
  /\ InLoop(1)
  /\ frame[1].attempt # <<>>
  /\ frame[1].attempt[1].coin_flip
  /\ frame[1].attempt[1].start_point[1] = One
  /\ frame[1].attempt[1].end_point[1] = FSub(One, Self.step)
  /\ Pushed(1)

\* C7: no Glyph is ever returned for a configuration with resolution < 2 or
\* density < 1: new or generate rejects it first.
C7_InvalidRejected ==
  \A c \in Callers : Done(c) => Self.resolution >= 2 /\ Self.density >= 1

C9_DuplicateFree ==
  Gridded => \A c \in Callers : Done(c) => ~HasDuplicate(frame[c].glyph.lines)

\* C9 amended: generate does no deduplication: for resolution >= 2 every
\* attempt with start != end is appended to the list, also when the same
\* segment, in either direction, is already in it, so a list can hold the
\* same segment more than once.
C9_AppendsDuplicates ==
  [][\A c \in Callers :
       Gridded /\ InLoop(c) /\ InLoop(c)' =>
         IF PointEq(frame'[c].attempt[1].start_point, frame'[c].attempt[1].end_point)
         THEN frame'[c].lines = frame[c].lines
         ELSE frame'[c].lines =
                Append(frame[c].lines,
                       LineNew(frame'[c].attempt[1].start_point,
                               frame'[c].attempt[1].end_point))]_vars

\* The walk has pushed a segment that was already in its list.
C9_Witness ==
  /\ Valid
  /\ InLoop(1)
  /\ Self.symmetry = "Asymmetric"
  /\ Len(frame[1].lines) >= 2
  /\ \E k \in 1..(Len(frame[1].lines) - 1) :
       SameSegment(frame[1].lines[k], frame[1].lines[Len(frame[1].lines)])

\* C10: from_str is Ok exactly for the four tokens, each with its own
\* variant, and for every other string an Err whose message carries the
\* token; nothing unrecognized becomes a Symmetry.
C10_FromStr ==
  options # <<>> =>
    /\ (options[1].symmetry.tag = "Ok") = (options[1].token \in SymmetryTokens)
    /\ options[1].token = "asymmetric" => options[1].symmetry = Ok("Asymmetric")
    /\ options[1].token = "horizontal" => options[1].symmetry = Ok("Horizontal")
    /\ options[1].token = "vertical" => options[1].symmetry = Ok("Vertical")
    /\ options[1].token = "horizontalvertical" =>
         options[1].symmetry = Ok("HorizontalVertical")
    /\ options[1].token \notin SymmetryTokens =>
         options[1].symmetry = Err("Could not parse symmetry '" \o options[1].token \o "'")
    /\ alphabet # <<>> => options[1].token \in SymmetryTokens

\* A token that differs from a valid one only in case is refused.
C10_Witness ==
  /\ options # <<>>
  /\ options[1].token = "Horizontal"
  /\ options[1].symmetry.tag = "Err"

SameOn(line, axis) == FEq(line.end[axis], line.start[axis])

\* The end is the f64 start + step or start - step on this axis, one grid
\* step away from the start up to the rounding of that sum.
StepOn(line, axis) ==
  /\ \/ FEq(line.end[axis], FAdd(line.start[axis], Self.step))
     \/ FEq(line.end[axis], FSub(line.start[axis], Self.step))
  /\ FLt(FAbs(FSub(FAbs(FSub(line.end[axis], line.start[axis])), Self.step)), Tolerance)

\* C12: for resolution >= 2 every accumulated line has the shape of the
\* motif: under Orthogonal the end equals the start on one axis and is one
\* grid step from it on the other; under Diagonal the end is, on each axis,
\* equal to the start or one grid step from it, and one step from it on at
\* least one axis.
C12_MotifShape ==
  Gridded =>
    \A c \in Callers :
      InLoop(c) =>
        \A k \in 1..Len(frame[c].lines) :
          /\ Self.motif = "Orthogonal" =>
               \/ SameOn(frame[c].lines[k], 1) /\ StepOn(frame[c].lines[k], 2)
               \/ StepOn(frame[c].lines[k], 1) /\ SameOn(frame[c].lines[k], 2)
          /\ Self.motif = "Diagonal" =>
               /\ \A axis \in 1..2 :
                    SameOn(frame[c].lines[k], axis) \/ StepOn(frame[c].lines[k], axis)
               /\ \E axis \in 1..2 : StepOn(frame[c].lines[k], axis)

\* The x adjustment drawn by the first Diagonal attempt of this seed.
FirstAdjustmentX(seed) ==
  gen_adjustment(Self,
    gen_point(Self, GenBool(GenBool(SeedFromU64(seed))[2])[2])[2])[1]

\* A first Diagonal attempt from x == 0 that drew -1 for x: the clamp put
\* the end back on x == 0, y moved by one step and the line was pushed.
C12_Witness ==
  /\ Valid
  /\ Self.motif = "Diagonal"
  /\ InLoop(1)
  /\ frame[1].i = 1
  /\ frame[1].attempt[1].coin_flip
  /\ frame[1].attempt[1].start_point[1] = Zero
  /\ FirstAdjustmentX(frame[1].seed) = -1
  /\ Len(frame[1].lines) = 1
  /\ SameOn(frame[1].lines[1], 1)
  /\ StepOn(frame[1].lines[1], 2)
====
